---- MODULE Spec2Model ----
(***************************************************************************)
(* The bounded tool-use loop of ClaudeCodeAgent.analyze_ticket             *)
(* (src/server/claude_agent.py): budget counters, tool dispatch, history   *)
(* pruning, the rate-limit retry and the fallback result.                  *)
(*                                                                         *)
(* Abstractions.  Texts are atomic strings or sequences of fragments.  A   *)
(* model response is the number of its tool_use blocks; the name and the   *)
(* input of a block are drawn when the for-loop of line 607 reaches it     *)
(* (the loop reads nothing of a block before that).  Text blocks are left  *)
(* out: the filter of lines 596-598 skips them.  A tool_use id is the pair *)
(* <<iteration, position>>.  The payload of a successful tool result is    *)
(* reduced to its top-level key.  A transcript message is its role, its    *)
(* kind and the iteration that appended it: the tool_use blocks of the     *)
(* assistant message of iteration k and the tool results of the user       *)
(* message of iteration k carry the ids <<k, 1>>, <<k, 2>>, ...; the batch *)
(* itself is the variable tool_results when the message is appended.       *)
(***************************************************************************)
EXTENDS Integers, Sequences, FiniteSets, TLC

\* ------------------------------------------------------------ constants
MAX_ITERATIONS == 10
MAX_TOOL_CALLS == 10
MAX_READS == 3
MAX_SEARCHES == 2
max_user_msgs == 6
max_assistant_msgs == 6
RESPONSE_MAX_TOKENS == 2500
\* "maxItems" of the files list in the read_files tool schema
maxItems == 5
\* matches[:20] and line_numbers[:5] of search_files
MatchesCap == 20
LineNumbersCap == 5
\* clean_desc[:100], first_line[:80] and title_slug[:50]
FirstLineCap == 100
TitleCap == 80
SlugCap == 50
\* {2,10} of the first ticket-number pattern
MinKeyLetters == 2
MaxKeyLetters == 10

\* --------------------------------------------------------------- bounds
\* tool_use blocks in one model response
MaxCallsPerResponse == 2
\* successful write_file calls per run
MaxWrites == 2

\* messages of a transcript handed to _prune_messages on its own
MaxTranscript == 4
\* the caps handed to _prune_messages on its own: 0..MaxCap each
MaxCap == 2
\* the longest list of paths a read_files request holds
MaxListed == 6
\* files of one kind in a tree handed to search_files on its own
MaxFiles == 21
\* lines of a file of such a tree
MaxLines == 7
\* repetitions of the unit that fills a ticket text
MaxRun == 45
\* entries of the "changes" list of a model answer
MaxEntries == 2
\* the largest truncate_bytes of a read_files call on its own; files are up
\* to one character longer
MaxBytes == 3
\* paths listed by such a call
MaxBatch == 2
\* tool requests one run makes in the two-run interleaving
MaxRequests == 4

\* --------------------------------------------------------------- inputs
\* ticket texts, as sequences of fragments
Tickets == {<<"PROJ-1: add login">>}
RepoPaths == {"", "/repo"}
Paths == {"a.py"}
Contents == {"c1", "c2"}
Absent == "<absent>"
NoContent == "<none>"
\* the tree as checked out: a.py does not exist yet
InitialFiles == [p \in Paths |-> Absent]

ReadTools == {"read_file", "peek_file", "read_files"}
ToolNames == ReadTools \cup {"write_file", "list_directory", "search_files", "delete_file"}

\* the tool_use blocks the model may emit: [name, input]
\* (file_path also stands for the required key of list_directory and of
\* search_files; files is the list of read_files)
Requests ==
    [name : {"read_file", "peek_file"}, file_path : Paths, content : {NoContent},
     files : {<<>>}]
    \cup [name : {"read_files"}, file_path : {""}, content : {NoContent},
          files : {<<>>} \cup {<<p>> : p \in Paths} \cup {<<p, q>> : p, q \in Paths}]
    \cup [name : {"write_file"}, file_path : Paths, content : Contents, files : {<<>>}]
    \cup [name : {"list_directory", "search_files", "delete_file"},
          file_path : {""}, content : {NoContent}, files : {<<>>}]

\* the iterations whose first model call may be answered with a rate-limit
\* signal: the first one, and one whose transcript is at the pruning caps
RateLimitedIterations == {1, 7}

\* exceptions a model call can raise
Errors == {"RateLimitError", "APIError"}

NOTES_FILE == "IMPLEMENTATION_NOTES.md"
TOOL_BUDGET_DIRECTIVE == "Tool budget exhausted. Proceed to implement changes now."
RATE_LIMIT_DIRECTIVE == "Rate limit encountered. Do not read more. Implement changes now."

VARIABLES
    pc,                 \* position in analyze_ticket
    ticket_description, \* argument
    current_repo_path,  \* self.current_repo_path
    files,              \* the working tree: path -> content or Absent
    iteration,
    tool_calls_used,
    reads_used,
    searches_used,
    messages,           \* the transcript
    response,           \* number of tool_use blocks of the last response
    position,           \* blocks of that response the for-loop has read
    tool_call,          \* the name of the block the for-loop read last
    tool_results,       \* the iteration's result batch
    files_modified,
    result,             \* what analyze_ticket returns
    exception,          \* the exception the except branch of line 695 caught
    model_calls,        \* calls of claude.messages.create in this iteration
    executed,           \* calls of _execute_tool so far
    dispatched,         \* positions of the response's blocks passed to _execute_tool
    directives,         \* tool-budget directives appended so far
    pruned,             \* what the last call of _prune_messages returned
    caps,               \* the caps of that call: <<max_user_msgs, max_assistant_msgs>>
    max_tokens,         \* max_tokens of the iteration's last model call
    call,               \* the arguments of a function called on its own
    outcome             \* what that call returned

vars == <<pc, ticket_description, current_repo_path, files, iteration,
          tool_calls_used, reads_used, searches_used, messages, response,
          position, tool_call, tool_results, files_modified, result, exception,
          model_calls, executed, dispatched, directives, pruned, caps,
          max_tokens, call, outcome>>

NoCall == "<none>"
NoOutcome == "<none>"
NoResult == [kind |-> "none", analysis |-> <<>>, code_changes |-> <<>>]
NoException == "<none>"
NoToolCall == "<none>"

\* ------------------------------------------------------------- messages
TextMessage(role, text, it) == [role |-> role, kind |-> text, iter |-> it]

AssistantMessage(n, it) ==
    [role |-> "assistant", kind |-> IF n > 0 THEN "tool_use" ELSE "text", iter |-> it]

ToolResultsMessage(batch, it) == [role |-> "user", kind |-> "tool_result", iter |-> it]

ToolResult(id, content) == [tool_use_id |-> id, content |-> content]

\* json.dumps(result), reduced to the error text or "ok"
Dump(res) == IF res.key = "error" THEN res.text ELSE "ok"

Reverse(s) == [i \in 1..Len(s) |-> s[Len(s) + 1 - i]]

RECURSIVE PruneScan(_, _, _, _, _, _)
\* the loop of lines 392-401 from position i down to 1: the list `pruned`
PruneScan(msgs, i, user_count, assistant_count, mu, ma) ==
    IF i = 0 THEN <<>>
    ELSE LET m == msgs[i] IN
         IF m.role = "user" /\ user_count < mu
         THEN <<m>> \o PruneScan(msgs, i - 1, user_count + 1, assistant_count, mu, ma)
         ELSE IF m.role = "assistant" /\ assistant_count < ma
         THEN <<m>> \o PruneScan(msgs, i - 1, user_count, assistant_count + 1, mu, ma)
         ELSE IF m.role \notin {"user", "assistant"}
         THEN <<m>> \o PruneScan(msgs, i - 1, user_count, assistant_count, mu, ma)
         ELSE PruneScan(msgs, i - 1, user_count, assistant_count, mu, ma)

\* mutant: line 403 returns the list as collected, newest first
PruneWithoutReverse(msgs, mu, ma) == PruneScan(msgs, Len(msgs), 0, 0, mu, ma)

\* mutant: messages of other roles are dropped
PruneDroppingOthers(msgs, mu, ma) ==
    SelectSeq(Reverse(PruneScan(msgs, Len(msgs), 0, 0, mu, ma)),
              LAMBDA m : m.role \in {"user", "assistant"})

\* mutant: one assistant message fewer is kept
PruneFewerAssistants(msgs, mu, ma) == Reverse(PruneScan(msgs, Len(msgs), 0, 0, mu, ma - 1))

prune_messages(msgs, mu, ma) == Reverse(PruneScan(msgs, Len(msgs), 0, 0, mu, ma))

\* -------------------------------------------------------- _execute_tool
Error(text) == [key |-> "error", text |-> text]
Payload(key) == [key |-> key, text |-> ""]

\* mutant: every tool rewrites the files of the tree
ExecuteToolAlwaysWriting(root, fs, name, input, io_ok) ==
    [result |-> [key |-> "items", text |-> ""], files |-> [p \in DOMAIN fs |-> "c1"]]

\* mutant: write_file reports success without writing the file
ExecuteToolWithoutWriting(root, fs, name, input, io_ok) ==
    IF root # "" /\ name = "write_file" /\ io_ok
    THEN [result |-> [key |-> "success", text |-> ""], files |-> fs]
    ELSE [result |-> [key |-> "error", text |-> "Tool execution failed"], files |-> fs]

\* a key the input map does not hold
Missing == "<missing>"
\* the list of an input map without the key "files"
MissingList == <<Missing>>
\* the content of a file opened for writing and not written
EmptyContent == ""
FileExists(fs, path) == path \in DOMAIN fs /\ fs[path] # Absent

\* a filesystem operation of _execute_tool
Op(kind, path) == [op |-> kind, path |-> path]
\* an exception raised inside the try block of lines 215-350
Raised(e) == [key |-> "raise", text |-> e]
Outcome(res, fs, accessed) == [result |-> res, files |-> fs, accessed |-> accessed]

RECURSIVE ReadFilesAccess(_, _)
\* lines 319-345: every listed path is tested, every existing one is opened
ReadFilesAccess(fs, paths) ==
    IF paths = <<>> THEN <<>>
    ELSE (IF FileExists(fs, Head(paths))
          THEN <<Op("exists", Head(paths)), Op("read", Head(paths))>>
          ELSE <<Op("exists", Head(paths))>>)
         \o ReadFilesAccess(fs, Tail(paths))

\* lines 216-350, the try block of _execute_tool on the tree fs; io_ok: the
\* operating system lets the file operation through.  The result (a value or
\* an exception), the tree afterwards and the filesystem operations made.
tool_body(fs, name, input, io_ok) ==
    IF name = "read_file" THEN
        IF input.file_path = Missing THEN Outcome(Raised("KeyError"), fs, <<>>)
        ELSE IF ~FileExists(fs, input.file_path)
        THEN Outcome(Error("File not found"), fs, <<Op("exists", input.file_path)>>)
        ELSE IF ~io_ok
        THEN Outcome(Raised("OSError"), fs, <<Op("exists", input.file_path)>>)
        ELSE Outcome(Payload("content"), fs,
                     <<Op("exists", input.file_path), Op("read", input.file_path)>>)
    ELSE IF name = "write_file" THEN
        IF input.file_path = Missing THEN Outcome(Raised("KeyError"), fs, <<>>)
        ELSE IF ~io_ok THEN Outcome(Raised("OSError"), fs, <<>>)
        ELSE IF input.content = Missing
        THEN Outcome(Raised("KeyError"), [fs EXCEPT ![input.file_path] = EmptyContent],
                     <<Op("write", input.file_path)>>)
        ELSE Outcome(Payload("success"), [fs EXCEPT ![input.file_path] = input.content],
                     <<Op("write", input.file_path)>>)
    ELSE IF name = "list_directory" THEN
        IF input.file_path = Missing THEN Outcome(Raised("KeyError"), fs, <<>>)
        ELSE IF input.file_path # "" /\ ~FileExists(fs, input.file_path)
        THEN Outcome(Error("Directory not found"), fs, <<Op("exists", input.file_path)>>)
        ELSE IF input.file_path # "" \/ ~io_ok
        THEN Outcome(Raised("OSError"), fs,
                     <<Op("exists", input.file_path), Op("list", input.file_path)>>)
        ELSE Outcome(Payload("items"), fs,
                     <<Op("exists", input.file_path), Op("list", input.file_path)>>)
    ELSE IF name = "search_files" THEN
        IF input.file_path = Missing THEN Outcome(Raised("KeyError"), fs, <<>>)
        ELSE Outcome(Payload("matches"), fs, <<Op("walk", "")>>)
    ELSE IF name = "peek_file" THEN
        IF input.file_path = Missing THEN Outcome(Raised("KeyError"), fs, <<>>)
        ELSE IF ~FileExists(fs, input.file_path)
        THEN Outcome(Error("File not found"), fs, <<Op("exists", input.file_path)>>)
        ELSE IF ~io_ok
        THEN Outcome(Error("Could not read file"), fs, <<Op("exists", input.file_path)>>)
        ELSE Outcome(Payload("head"), fs,
                     <<Op("exists", input.file_path), Op("read", input.file_path)>>)
    ELSE IF name = "read_files" THEN
        IF input.files = MissingList THEN Outcome(Raised("KeyError"), fs, <<>>)
        ELSE Outcome(Payload("files"), fs, ReadFilesAccess(fs, input.files))
    ELSE Outcome(Error("Unknown tool"), fs, <<>>)

\* mutant: no except clause around the try block
CatchNothing(out) == out

\* lines 352-353: except Exception as e: return {"error": "Tool execution failed: ..."}
CatchAll(out) ==
    IF out.result.key = "raise"
    THEN Outcome(Error("Tool execution failed"), out.files, out.accessed)
    ELSE out

\* mutant: the test of line 212 is left out
ExecuteToolWithoutRootCheck(root, fs, name, input, io_ok) ==
    CatchAll(tool_body(fs, name, input, io_ok))

\* lines 208-353: _execute_tool
execute_tool(root, fs, name, input, io_ok) ==
    IF root = "" THEN Outcome(Error("No repository path set"), fs, <<>>)
    ELSE CatchAll(tool_body(fs, name, input, io_ok))

\* ------------------------------------------------------- budget checks
\* mutant: only read_file draws on the reads budget
IsReadFileOnly(name) == name = "read_file"

IsReadTool(name) == name \in {"read_file", "peek_file", "read_files"}
IsSearchTool(name) == name = "search_files"
\* mutant: the read check is off by one
ReadBudgetOffByOne(reads) == reads > MAX_READS
\* line 612
ReadBudgetExhausted(reads) == reads >= MAX_READS
\* mutant: searches are never rejected
SearchBudgetNeverExhausted(searches) == FALSE
\* line 622
SearchBudgetExhausted(searches) == searches >= MAX_SEARCHES
\* mutant: the ceiling check is off by one
ToolBudgetOffByOne(calls) == calls > MAX_TOOL_CALLS
\* mutant: the ceiling stops the request that reaches it, and no later one
ToolBudgetReachedExactly(calls) == calls = MAX_TOOL_CALLS
\* line 632
ToolBudgetReached(calls) == calls >= MAX_TOOL_CALLS

\* ----------------------------------------------------------------- Init
Init ==
    /\ pc = "loop"
    /\ ticket_description \in Tickets
    /\ current_repo_path \in RepoPaths
    /\ files = InitialFiles
    /\ iteration = 0
    /\ tool_calls_used = 0
    /\ reads_used = 0
    /\ searches_used = 0
    /\ messages = <<TextMessage("user", "initial_prompt", 0)>>
    /\ response = 0
    /\ position = 0
    /\ tool_call = NoToolCall
    /\ tool_results = <<>>
    /\ files_modified = <<>>
    /\ result = NoResult
    /\ exception = NoException
    /\ model_calls = 0
    /\ executed = 0
    /\ dispatched = <<>>
    /\ directives = 0
    /\ pruned = <<>>
    /\ caps = <<max_user_msgs, max_assistant_msgs>>
    /\ max_tokens = 0
    /\ call = NoCall
    /\ outcome = NoOutcome

\* ------------------------------------------------------- the result
\* lines 657-665 and 702-710 (title and ticket_number are pure functions of
\* the ticket text and are not part of the loop's state)
Analysis(description, paths, plan) ==
    [description |-> description,
     requirements |-> <<description>>,
     files_to_modify |-> paths,
     implementation_plan |-> plan,
     estimated_complexity |-> "medium"]

CodeChange(file_path, new_content, change_description) ==
    [file_path |-> file_path, original_content |-> "",
     new_content |-> new_content, change_description |-> change_description]

\* mutant: no CodeChange is built from files_modified
NoCodeChanges(root, fs, modified, readable) == <<>>

\* lines 669-689: one CodeChange per entry of files_modified, content re-read;
\* readable[p]: the open and read of lines 679-680 succeed for the path p
\* (new_content stays "" when the file is missing or the read fails)
CodeChanges(root, fs, modified, readable) ==
    [i \in 1..Len(modified) |->
        CodeChange(modified[i].file_path,
                   IF fs[modified[i].file_path] # Absent /\ readable[modified[i].file_path]
                   THEN <<fs[modified[i].file_path]>> ELSE <<>>,
                   modified[i].change_description)]

\* lines 657-693: the value returned when the loop ends without an exception
LoopResult(ticket, root, fs, modified, readable) ==
    [kind |-> "returned",
     analysis |-> Analysis(ticket,
                           [i \in 1..Len(modified) |-> modified[i].file_path],
                           <<"Explore codebase", "Understand requirements",
                             "Implement changes", "Test implementation">>),
     code_changes |-> CodeChanges(root, fs, modified, readable)]

\* mutant: the except branch writes the error into the description
FallbackResultQuotingError(ticket, e) ==
    [kind |-> "returned",
     analysis |-> Analysis(ticket \o <<e>>, <<>>,
                           <<"Analyze requirements", "Implement changes",
                             "Test implementation">>),
     code_changes |-> <<CodeChange(NOTES_FILE,
                                   <<"# Implementation for: title", "## Description">>
                                   \o ticket \o <<"## Status", "## Error", e>>,
                                   "Created implementation notes")>>]

\* lines 700-731: the value returned by the except branch
FallbackResult(ticket, e) ==
    [kind |-> "returned",
     analysis |-> Analysis(ticket, <<>>,
                           <<"Analyze requirements", "Implement changes",
                             "Test implementation">>),
     code_changes |-> <<CodeChange(NOTES_FILE,
                                   <<"# Implementation for: title", "## Description">>
                                   \o ticket \o <<"## Status", "## Error", e>>,
                                   "Created implementation notes")>>]

\* mutant: the except branch catches APIError only
CaughtApiErrorOnly(e) == e = "APIError"

\* mutant: the except branch catches RateLimitError only
CaughtRateLimitOnly(e) == e = "RateLimitError"

\* line 695: except Exception catches every exception a call can raise
Caught(e) == TRUE

\* an exception e raised inside the try block of lines 553-693
Raise(e) ==
    /\ pc' = "done"
    /\ exception' = e
    /\ result' = IF Caught(e) THEN FallbackResult(ticket_description, e)
                 ELSE [kind |-> "raised", analysis |-> Analysis(<<>>, <<>>, <<>>),
                       code_changes |-> <<>>]

\* -------------------------------------------------------------- actions
\* mutant: the loop test is off by one
LoopContinuesOnceMore(it) == it <= MAX_ITERATIONS

\* line 568: the loop test
LoopContinues(it) == it < MAX_ITERATIONS

\* mutant: the retry keeps the full output limit
FullMaxTokens(n) == n

\* line 587: int(n * 0.6), in integer arithmetic
ReducedMaxTokens(n) == (n * 6) \div 10

\* lines 568-573: the loop test, the increment and the pruning
LoopHead ==
    /\ pc = "loop"
    /\ IF LoopContinues(iteration)
       THEN /\ iteration' = iteration + 1
            /\ messages' = prune_messages(messages, max_user_msgs, max_assistant_msgs)
            /\ pruned' = messages'
            /\ pc' = "call"
       ELSE /\ pc' = "finish"
            /\ UNCHANGED <<iteration, messages, pruned>>
    /\ position' = 0
    /\ tool_call' = NoToolCall
    /\ tool_results' = <<>>
    /\ dispatched' = <<>>
    /\ model_calls' = IF LoopContinues(iteration) THEN 0 ELSE model_calls
    /\ max_tokens' = IF LoopContinues(iteration) THEN 0 ELSE max_tokens
    /\ UNCHANGED <<caps, call, outcome>>
    /\ UNCHANGED <<ticket_description, current_repo_path, files, tool_calls_used,
                   reads_used, searches_used, response, files_modified, result, exception,
                   executed, directives>>

\* mutant: the loop never breaks on a response without tool_use blocks
NoToolCallsIgnored(n) == FALSE

\* line 600: the response holds no tool_use block
NoToolCalls(n) == n = 0

\* lines 592-603 and 606: the response is appended; no tool_use block ends the loop
HandleResponse(n) ==
    /\ messages' = Append(messages, AssistantMessage(n, iteration))
    /\ response' = n
    /\ pc' = IF NoToolCalls(n) THEN "finish" ELSE "dispatch"
    /\ UNCHANGED <<result, exception>>

\* lines 576-581: the first model call of the iteration answers
ModelResponds ==
    /\ max_tokens' = RESPONSE_MAX_TOKENS
    /\ UNCHANGED <<pruned, caps, call, outcome>>
    /\ pc = "call"
    /\ model_calls' = model_calls + 1
    /\ \E n \in 0..MaxCallsPerResponse : HandleResponse(n)
    /\ UNCHANGED <<ticket_description, current_repo_path, files, iteration,
                   tool_calls_used, reads_used, searches_used, position,
                   tool_call, tool_results, files_modified, executed,
                   dispatched, directives>>

\* lines 582-584: the first call raises RateLimitError; the directive is appended
ModelRateLimited ==
    /\ max_tokens' = RESPONSE_MAX_TOKENS
    /\ UNCHANGED <<pruned, caps, call, outcome>>
    /\ pc = "call"
    /\ iteration \in RateLimitedIterations
    /\ model_calls' = model_calls + 1
    /\ messages' = Append(messages, TextMessage("user", RATE_LIMIT_DIRECTIVE, iteration))
    /\ pc' = "retry"
    /\ UNCHANGED <<ticket_description, current_repo_path, files, iteration,
                   tool_calls_used, reads_used, searches_used, response, position,
                   tool_call, tool_results, files_modified, result, exception, executed, dispatched,
                   directives>>

\* lines 576-581: the first call raises something else than RateLimitError
ModelFails ==
    /\ max_tokens' = RESPONSE_MAX_TOKENS
    /\ UNCHANGED <<pruned, caps, call, outcome>>
    /\ pc = "call"
    /\ model_calls' = model_calls + 1
    /\ \E e \in Errors \ {"RateLimitError"} : Raise(e)
    /\ UNCHANGED <<ticket_description, current_repo_path, files, iteration,
                   tool_calls_used, reads_used, searches_used, messages, response,
                   position, tool_call, tool_results, files_modified, executed,
                   dispatched, directives>>

\* lines 585-590: the retry answers
RetryResponds ==
    /\ max_tokens' = ReducedMaxTokens(RESPONSE_MAX_TOKENS)
    /\ UNCHANGED <<pruned, caps, call, outcome>>
    /\ pc = "retry"
    /\ model_calls' = model_calls + 1
    /\ \E n \in 0..MaxCallsPerResponse : HandleResponse(n)
    /\ UNCHANGED <<ticket_description, current_repo_path, files, iteration,
                   tool_calls_used, reads_used, searches_used, position,
                   tool_call, tool_results, files_modified, executed,
                   dispatched, directives>>

\* lines 585-590: the retry raises (nothing handles it inside the loop)
RetryFails ==
    /\ max_tokens' = ReducedMaxTokens(RESPONSE_MAX_TOKENS)
    /\ UNCHANGED <<pruned, caps, call, outcome>>
    /\ pc = "retry"
    /\ model_calls' = model_calls + 1
    /\ \E e \in Errors : Raise(e)
    /\ UNCHANGED <<ticket_description, current_repo_path, files, iteration,
                   tool_calls_used, reads_used, searches_used, messages, response,
                   position, tool_call, tool_results, files_modified, executed,
                   dispatched, directives>>

\* mutant: every result of the batch is appended as a message of its own
AppendResultsOneByOne(msgs, batch) ==
    /\ messages' = msgs \o [i \in DOMAIN batch |-> ToolResultsMessage(<<batch[i]>>, iteration)]
    /\ pc' = "loop"

\* lines 652-654 after the for-loop: the batch is appended when it is not empty
AppendResults(msgs, batch) ==
    /\ messages' = IF batch # <<>>
                   THEN Append(msgs, ToolResultsMessage(batch, iteration))
                   ELSE msgs
    /\ pc' = "loop"

\* mutant: the for-loop ends after the first block it handled
ContinueNever(batch) == AppendResults(messages, batch)

\* the for-loop goes on with the next block, or is over
Continue(batch) ==
    IF position + 1 = response
    THEN AppendResults(messages, batch)
    ELSE pc' = "dispatch" /\ UNCHANGED messages

\* lines 613-618 and 623-628: the request is answered with a budget error
RejectToolCall(id, text) ==
    /\ tool_results' = Append(tool_results, ToolResult(id, Dump(Error(text))))
    /\ Continue(tool_results')
    /\ UNCHANGED <<files, tool_calls_used, files_modified, executed,
                   dispatched, directives>>

\* lines 631-650: the request counts as a tool call, and is executed unless
\* the ceiling is reached
CountAndExecute(req, id, io_ok) ==
    /\ tool_calls_used' = tool_calls_used + 1
    /\ IF ToolBudgetReached(tool_calls_used + 1)
       THEN /\ AppendResults(Append(messages,
                                     TextMessage("user", TOOL_BUDGET_DIRECTIVE, iteration)),
                              tool_results)
            /\ directives' = directives + 1
            /\ UNCHANGED <<files, files_modified, tool_results, executed, dispatched>>
       ELSE LET out == execute_tool(current_repo_path, files, req.name, req, io_ok) IN
            /\ files' = out.files
            /\ executed' = executed + 1
            /\ dispatched' = Append(dispatched, position + 1)
            /\ files_modified' =
                 IF req.name = "write_file" /\ out.result.key = "success"
                 THEN Append(files_modified,
                             [file_path |-> req.file_path,
                              change_description |-> "Modified via write_file"])
                 ELSE files_modified
            /\ tool_results' = Append(tool_results, ToolResult(id, Dump(out.result)))
            /\ Continue(tool_results')
            /\ UNCHANGED directives

\* lines 607-650: one pass of the for-loop over the response's tool_use blocks
ProcessToolCall ==
    /\ pc = "dispatch"
    /\ position < response
    /\ \E req \in Requests, io_ok \in BOOLEAN :
        LET id == <<iteration, position + 1>> IN
        /\ req.name = "write_file" => Len(files_modified) < MaxWrites
        /\ position' = position + 1
        /\ tool_call' = req.name
        /\ IF IsReadTool(req.name) /\ ReadBudgetExhausted(reads_used)
           THEN /\ RejectToolCall(id, "read budget exhausted")
                /\ UNCHANGED <<reads_used, searches_used>>
           ELSE /\ reads_used' = IF IsReadTool(req.name) THEN reads_used + 1
                                 ELSE reads_used
                /\ IF IsSearchTool(req.name) /\ SearchBudgetExhausted(searches_used)
                   THEN /\ RejectToolCall(id, "search budget exhausted")
                        /\ UNCHANGED searches_used
                   ELSE /\ searches_used' = IF IsSearchTool(req.name)
                                            THEN searches_used + 1 ELSE searches_used
                        /\ CountAndExecute(req, id, io_ok)
    /\ UNCHANGED <<ticket_description, current_repo_path, iteration, response,
                   result, exception, model_calls, pruned, caps, max_tokens,
                   call, outcome>>

\* lines 656-693: the analysis and the code changes are built and returned
Finish ==
    /\ pc = "finish"
    /\ \E readable \in [Paths -> BOOLEAN] :
         result' = LoopResult(ticket_description, current_repo_path, files,
                              files_modified, readable)
    /\ pc' = "done"
    /\ UNCHANGED <<exception, ticket_description, current_repo_path, files, iteration,
                   tool_calls_used, reads_used, searches_used, messages, response,
                   position, tool_call, tool_results, files_modified, model_calls,
                   executed, dispatched, directives, pruned, caps, max_tokens,
                   call, outcome>>

Next ==
    \/ LoopHead
    \/ ModelResponds
    \/ ModelRateLimited
    \/ ModelFails
    \/ RetryResponds
    \/ RetryFails
    \/ ProcessToolCall
    \/ Finish

Spec == Init /\ [][Next]_vars

\* ------------------------------------------- _prune_messages on its own
Roles == {"user", "assistant", "system"}
\* the transcript with the roles f[1], f[2], ...; iter numbers the messages
Transcript(f) == [i \in DOMAIN f |-> TextMessage(f[i], "text", i)]
Transcripts == {Transcript(f) : f \in UNION {[1..n -> Roles] : n \in 0..MaxTranscript}}

PruneInit ==
    /\ pc = "prune"
    /\ messages \in Transcripts
    /\ caps \in (0..MaxCap) \X (0..MaxCap)
    /\ pruned = <<>>
    /\ ticket_description \in Tickets
    /\ current_repo_path = ""
    /\ files = InitialFiles
    /\ iteration = 0
    /\ tool_calls_used = 0
    /\ reads_used = 0
    /\ searches_used = 0
    /\ response = 0
    /\ position = 0
    /\ tool_call = NoToolCall
    /\ tool_results = <<>>
    /\ files_modified = <<>>
    /\ result = NoResult
    /\ exception = NoException
    /\ model_calls = 0
    /\ executed = 0
    /\ dispatched = <<>>
    /\ directives = 0
    /\ max_tokens = 0
    /\ call = NoCall
    /\ outcome = NoOutcome

\* lines 376-403: one call _prune_messages(messages, caps[1], caps[2])
CallPruneMessages ==
    /\ pc = "prune"
    /\ pruned' = prune_messages(messages, caps[1], caps[2])
    /\ pc' = "pruned"
    /\ UNCHANGED <<ticket_description, current_repo_path, files, iteration,
                   tool_calls_used, reads_used, searches_used, messages, response,
                   position, tool_call, tool_results, files_modified, result,
                   exception, model_calls, executed, dispatched, directives, caps,
                   max_tokens, call, outcome>>

PruneSpec == PruneInit /\ [][CallPruneMessages]_vars

\* a run started without a repository path (the default of line 489), in
\* which every model call and every tool dispatch returns: a step that can
\* be taken is taken
FairInit == Init /\ current_repo_path = ""
FairSpec == FairInit /\ [][Next]_vars /\ WF_vars(Next)

\* --------------------------------------------- _execute_tool on its own
\* the loop of analyze_ticket has not started
Standalone ==
    /\ ticket_description \in Tickets
    /\ iteration = 0
    /\ tool_calls_used = 0
    /\ reads_used = 0
    /\ searches_used = 0
    /\ messages = <<>>
    /\ response = 0
    /\ position = 0
    /\ tool_call = NoToolCall
    /\ tool_results = <<>>
    /\ files_modified = <<>>
    /\ result = NoResult
    /\ exception = NoException
    /\ model_calls = 0
    /\ executed = 0
    /\ dispatched = <<>>
    /\ directives = 0
    /\ pruned = <<>>
    /\ caps = <<max_user_msgs, max_assistant_msgs>>
    /\ max_tokens = 0
StandaloneUnchanged ==
    UNCHANGED <<ticket_description, iteration, tool_calls_used, reads_used,
                searches_used, messages, response, position, tool_call,
                tool_results, files_modified, result, exception, model_calls,
                executed, dispatched, directives, pruned, caps, max_tokens>>

\* the files of the repository a tool call can name
TreePaths == <<"a.py", "b.py", "c.py", "d.py", "e.py", "f.py", "g.py", "h.py">>
TreePathSet == {TreePaths[i] : i \in DOMAIN TreePaths}
\* trees: every file present, none, every other one
Trees ==
    {[p \in TreePathSet |-> "c1"], [p \in TreePathSet |-> Absent],
     [p \in TreePathSet |-> IF p \in {"a.py", "c.py", "e.py", "g.py"} THEN "c1" ELSE Absent]}
\* tool_input: any key may be missing; files lists the first n paths
ToolInputs ==
    [file_path : {Missing, "", "a.py", "b.py"}, content : {Missing, "c2"},
     files : {MissingList} \cup {SubSeq(TreePaths, 1, n) : n \in 0..MaxListed}]

ToolInit ==
    /\ pc = "execute"
    /\ current_repo_path \in RepoPaths
    /\ files \in Trees
    /\ call \in [name : ToolNames, input : ToolInputs, io_ok : BOOLEAN]
    /\ outcome = NoOutcome
    /\ Standalone

\* lines 208-353: one call _execute_tool(call.name, call.input)
CallExecuteTool ==
    /\ pc = "execute"
    /\ outcome' = execute_tool(current_repo_path, files, call.name, call.input, call.io_ok)
    /\ files' = outcome'.files
    /\ pc' = "executed"
    /\ UNCHANGED <<current_repo_path, call>>
    /\ StandaloneUnchanged

ToolSpec == ToolInit /\ [][CallExecuteTool]_vars

\* ------------------------------------------------ search_files on its own
\* A file or directory name is the sequence of its pieces: <<".", "git">> is
\* .git, <<"a", ".", "py">> is a.py; only a piece "." starts with a dot.
EXCLUDED_DIRS ==
    {<<"node_modules">>, <<"__pycache__">>, <<"venv">>, <<"dist">>, <<"build">>}
StartsWith(name, piece) == Len(name) > 0 /\ name[1] = piece
EndsWith(name, suffix) ==
    /\ Len(suffix) <= Len(name)
    /\ SubSeq(name, Len(name) - Len(suffix) + 1, Len(name)) = suffix

\* mutant: only hidden directories are left out of the walk
SkippedHiddenOnly(d) == StartsWith(d, ".")

\* line 256: the directories os.walk does not descend into
Skipped(d) == StartsWith(d, ".") \/ d \in EXCLUDED_DIRS
\* os.walk reaches a file when none of the directories above it was removed
\* from dirs
Walked(dirs) == \A j \in DOMAIN dirs : ~Skipped(dirs[j])

Min(a, b) == IF a <= b THEN a ELSE b
Max(a, b) == IF a >= b THEN a ELSE b
\* s[:n]
Take(s, n) == SubSeq(s, 1, Min(n, Len(s)))
\* lines 272-273: the numbers of the lines that contain the pattern
LineNumbers(lines) ==
    SelectSeq([i \in 1..Len(lines) |-> i], LAMBDA i : lines[i])

RECURSIVE SearchScan(_, _, _)
\* lines 255-279 over the files of the tree in the order of the walk
SearchScan(tree, extension, matches) ==
    IF tree = <<>> THEN [raised |-> FALSE, matches |-> matches]
    ELSE LET f == Head(tree)
             line_numbers == LineNumbers(f.lines)
         IN  IF \/ ~Walked(f.dirs)
                \/ StartsWith(f.name, ".")
                \/ extension # <<>> /\ ~EndsWith(f.name, extension)
             THEN SearchScan(Tail(tree), extension, matches)
             ELSE IF f.read = "skip"
             THEN SearchScan(Tail(tree), extension, matches)
             ELSE IF f.read = "fail"
             THEN [raised |-> TRUE, matches |-> matches]
             ELSE IF line_numbers = <<>>
             THEN SearchScan(Tail(tree), extension, matches)
             ELSE SearchScan(Tail(tree), extension,
                             Append(matches,
                                    [file |-> [dirs |-> f.dirs, name |-> f.name, no |-> f.no],
                                     line_numbers |-> Take(line_numbers, LineNumbersCap)]))

\* lines 249-281, and 352-353 when reading a file raises
search_files(tree, extension) ==
    LET r == SearchScan(tree, extension, <<>>)
    IN  IF r.raised
        THEN [result |-> Error("Tool execution failed"), matches |-> <<>>]
        ELSE [result |-> Payload("matches"), matches |-> Take(r.matches, MatchesCap)]

\* the directories a file of the tree lies under, from the root down
DirChoices ==
    {<<>>, <<<<"src">>>>, <<<<".", "git">>>>, <<<<"node_modules">>>>,
     <<<<"src">>, <<"__pycache__">>>>, <<<<"venv">>>>, <<<<"dist">>>>,
     <<<<"build">>>>, <<<<"build", ".", "old">>>>,
     <<<<"src">>, <<".", "cache">>, <<"lib">>>>}
\* per line: the line contains the pattern
LineChoices ==
    {[i \in 1..3 |-> FALSE], [i \in 1..MaxLines |-> TRUE],
     [i \in 1..MaxLines |-> i % 2 = 0]}
FileNames == {<<"a", ".", "py">>, <<".", "env">>, <<"README">>}
\* read: the file is read, skipped (UnicodeDecodeError, PermissionError) or
\* reading it raises another exception
Reads == {"ok", "skip", "fail"}
\* n files alike, numbered 1..n, and one more file after them
SearchTrees ==
    {[i \in 1..(n + 1) |->
        IF i <= n
        THEN [dirs |-> d, name |-> <<"a", ".", "py">>, no |-> i, lines |-> l, read |-> "ok"]
        ELSE [dirs |-> e.dirs, name |-> e.name, no |-> i, lines |-> e.lines, read |-> e.read]] :
        n \in 0..MaxFiles, d \in {<<>>, <<<<"src">>>>, <<<<"venv">>>>}, l \in LineChoices,
        e \in [dirs : DirChoices, name : FileNames, lines : LineChoices, read : Reads]}

SearchInit ==
    /\ pc = "search"
    /\ current_repo_path = "/repo"
    /\ files = InitialFiles
    /\ call \in [tree : SearchTrees, extension : {<<>>, <<".", "py">>}]
    /\ outcome = NoOutcome
    /\ Standalone

\* lines 249-281: one call of the search_files tool on the tree call.tree
CallSearchFiles ==
    /\ pc = "search"
    /\ outcome' = search_files(call.tree, call.extension)
    /\ pc' = "searched"
    /\ UNCHANGED <<current_repo_path, files, call>>
    /\ StandaloneUnchanged

SearchSpec == SearchInit /\ [][CallSearchFiles]_vars

\* ------------------------------------------------ branch names on their own
\* A text is the sequence of its characters.
UpperCase == <<"A", "B", "C", "D", "E", "F", "G", "H", "I", "J", "K", "L", "M",
               "N", "O", "P", "Q", "R", "S", "T", "U", "V", "W", "X", "Y", "Z">>
LowerCase == <<"a", "b", "c", "d", "e", "f", "g", "h", "i", "j", "k", "l", "m",
               "n", "o", "p", "q", "r", "s", "t", "u", "v", "w", "x", "y", "z">>
Upper == {UpperCase[i] : i \in DOMAIN UpperCase}
Lowers == {LowerCase[i] : i \in DOMAIN LowerCase}
Digits == {"0", "1", "2", "3", "4", "5", "6", "7", "8", "9"}
\* \s
Whitespace == {" ", "\t", "\n"}
\* \w, the characters between which \b finds no boundary
WordChars == Upper \cup Lowers \cup Digits \cup {"_"}
\* str.lower() on one character
Lower(c) == IF c \in Upper THEN LowerCase[CHOOSE i \in DOMAIN UpperCase : UpperCase[i] = c] ELSE c
ToLower(s) == [i \in DOMAIN s |-> Lower(s[i])]

RECURSIVE LStrip(_, _)
LStrip(s, chars) == IF s # <<>> /\ Head(s) \in chars THEN LStrip(Tail(s), chars) ELSE s
RECURSIVE RStrip(_, _)
RStrip(s, chars) ==
    IF s # <<>> /\ s[Len(s)] \in chars THEN RStrip(SubSeq(s, 1, Len(s) - 1), chars) ELSE s
\* str.strip(): chars is Whitespace when strip() has no argument
Strip(s, chars) == LStrip(RStrip(s, chars), chars)

RECURSIVE RunEnd(_, _, _)
\* the index after the longest run of characters of chars that starts at i
RunEnd(s, i, chars) ==
    IF i <= Len(s) /\ s[i] \in chars THEN RunEnd(s, i + 1, chars) ELSE i
\* \b at the gap before index i
Boundary(s, i) ==
    LET before == i > 1 /\ s[i - 1] \in WordChars
        after == i <= Len(s) /\ s[i] \in WordChars
    IN  before # after

\* the value of a function without a result
None == <<>>

\* line 421: \b([A-Z]{2,10}-\d+)\b matched at index i; the index after the
\* match, 0 when there is none
StandardFormatAt(s, i) ==
    LET j == RunEnd(s, i, Upper)
        m == RunEnd(s, j + 1, Digits)
    IN  IF /\ Boundary(s, i)
           /\ j - i >= MinKeyLetters /\ j - i <= MaxKeyLetters
           /\ j <= Len(s) /\ s[j] = "-"
           /\ m > j + 1
           /\ Boundary(s, m)
        THEN m ELSE 0
\* line 422: \b([A-Z]+\d+)\b matched at index i
AlternativeFormatAt(s, i) ==
    LET j == RunEnd(s, i, Upper)
        m == RunEnd(s, j, Digits)
    IN  IF Boundary(s, i) /\ j > i /\ m > j /\ Boundary(s, m) THEN m ELSE 0

\* re.search: the leftmost match, group(1)
SearchStandard(s) ==
    LET at == {i \in DOMAIN s : StandardFormatAt(s, i) # 0}
    IN  IF at = {} THEN None
        ELSE LET i == CHOOSE i \in at : \A k \in at : i <= k
             IN  SubSeq(s, i, StandardFormatAt(s, i) - 1)
SearchAlternative(s) ==
    LET at == {i \in DOMAIN s : AlternativeFormatAt(s, i) # 0}
    IN  IF at = {} THEN None
        ELSE LET i == CHOOSE i \in at : \A k \in at : i <= k
             IN  SubSeq(s, i, AlternativeFormatAt(s, i) - 1)

\* lines 405-430
extract_ticket_number(ticket) ==
    IF SearchStandard(ticket) # None THEN SearchStandard(ticket)
    ELSE SearchAlternative(ticket)

\* line 443: re.sub(r'^[A-Z]+-\d+:?\s*', '', s)
RemoveTicketPrefix(s) ==
    LET j == RunEnd(s, 1, Upper)
        m == RunEnd(s, j + 1, Digits)
        c == IF m <= Len(s) /\ s[m] = ":" THEN m + 1 ELSE m
        w == RunEnd(s, c, Whitespace)
    IN  IF j > 1 /\ j <= Len(s) /\ s[j] = "-" /\ m > j + 1
        THEN SubSeq(s, w, Len(s)) ELSE s
\* s.split('\n')[0]
FirstLine(s) ==
    LET nl == {i \in DOMAIN s : s[i] = "\n"}
    IN  IF nl = {} THEN s
        ELSE SubSeq(s, 1, (CHOOSE i \in nl : \A k \in nl : i <= k) - 1)

\* line 453: "Implement ticket requirements"
FIXED_TITLE ==
    <<"I", "m", "p", "l", "e", "m", "e", "n", "t", " ", "t", "i", "c", "k", "e", "t", " ",
      "r", "e", "q", "u", "i", "r", "e", "m", "e", "n", "t", "s">>

\* mutant: the title is not cut to 80 characters
TitleWithoutCut(description) ==
    LET clean_desc == RemoveTicketPrefix(Strip(description, Whitespace))
        first_line == Strip(FirstLine(clean_desc), Whitespace)
    IN  IF first_line = <<>> THEN FIXED_TITLE ELSE first_line

\* lines 432-455
create_title_from_description(description) ==
    LET clean_desc == RemoveTicketPrefix(Strip(description, Whitespace))
        line == Strip(FirstLine(clean_desc), Whitespace)
        first_line == IF line = <<>> THEN Strip(Take(clean_desc, FirstLineCap), Whitespace)
                      ELSE line
        title == Strip(Take(first_line, TitleCap), Whitespace)
    IN  IF title = <<>> THEN FIXED_TITLE ELSE title

RECURSIVE Collapse(_, _, _)
\* re.sub of a run of characters of chars by the one character by
Collapse(s, chars, by) ==
    IF s = <<>> THEN <<>>
    ELSE IF Head(s) \in chars
    THEN <<by>> \o Collapse(LStrip(s, chars), chars, by)
    ELSE <<Head(s)>> \o Collapse(Tail(s), chars, by)

\* lines 477-481
SlugBeforeCut(title) ==
    LET lowered == ToLower(title)
        kept == SelectSeq(lowered, LAMBDA c : c \in Lowers \cup Digits \cup Whitespace \cup {"-"})
        dashed == Collapse(Strip(kept, Whitespace), Whitespace, "-")
    IN  Strip(Collapse(dashed, {"-"}, "-"), {"-"})

\* mutant: the cut to 50 characters keeps a trailing hyphen
TitleSlugKeepingHyphen(title) ==
    IF Len(SlugBeforeCut(title)) > SlugCap THEN Take(SlugBeforeCut(title), SlugCap)
    ELSE SlugBeforeCut(title)

\* lines 476-485: title_slug
title_slug(title) ==
    IF Len(SlugBeforeCut(title)) > SlugCap
    THEN RStrip(Take(SlugBeforeCut(title), SlugCap), {"-"})
    ELSE SlugBeforeCut(title)

\* hashlib.md5(text.encode()).hexdigest()[:8], kept as the digest of the
\* text: two texts have the same digest only when they are the same text
Hash8(text) == <<"md5(">> \o text \o <<")">>

\* mutant: the ticket number is used as it is written
BranchNameKeepingCase(analysis, ticket) ==
    <<"feature/">>
    \o (IF analysis.ticket_number # None THEN analysis.ticket_number
        ELSE <<"ticket-">> \o Hash8(ticket))
    \o <<"-">> \o title_slug(analysis.title)

\* lines 457-487
create_unique_branch_name(analysis, ticket) ==
    LET prefix == IF analysis.ticket_number # None THEN ToLower(analysis.ticket_number)
                  ELSE <<"ticket-">> \o Hash8(ticket)
    IN  <<"feature/">> \o prefix \o <<"-">> \o title_slug(analysis.title)

RECURSIVE Repeat(_, _)
Repeat(unit, n) == IF n = 0 THEN <<>> ELSE unit \o Repeat(unit, n - 1)

\* how a ticket text begins
Heads ==
    {<<>>, <<"A", "B", "-", "1", ":", " ">>, <<"A", "B", "-", "1">>, <<"A", "B", "1", " ">>,
     <<"A", "-", "1", " ">>, <<" ", "-">>, <<"x", "A", "B", "-", "1", " ">>, FIXED_TITLE}
\* what it repeats
Units == {<<"a", "b">>, <<"a", " ">>, <<"A", "!">>, <<"-", " ">>}
\* how it ends; the second ticket of a batch is the first one, or the first
\* one and one more line
Tails == {<<>>, <<"\n", "b">>, <<"\n", "C", "D", "-", "2">>, <<" ", "7">>}

BranchInit ==
    /\ pc = "derive"
    /\ current_repo_path = "/repo"
    /\ files = InitialFiles
    /\ \E h \in Heads, u \in Units, n \in 0..MaxRun, t1 \in Tails,
          t2 \in {<<>>, <<"\n", "C", "D", "-", "2">>} :
          call = <<h \o Repeat(u, n) \o t1, h \o Repeat(u, n) \o t1 \o t2>>
    /\ outcome = NoOutcome
    /\ Standalone

\* what lines 505, 658 and 1031 derive from the ticket text
Derive(ticket) ==
    LET number == extract_ticket_number(ticket)
        title == create_title_from_description(ticket)
    IN  [ticket_number |-> number,
         title |-> title,
         slug |-> title_slug(title),
         branch_name |-> create_unique_branch_name(
                            [ticket_number |-> number, title |-> title], ticket),
         \* the ticket text itself as the title of the analysis
         free_slug |-> title_slug(ticket),
         again |-> None]

\* the branch names of the tickets of the batch
DeriveBranchNames ==
    /\ pc = "derive"
    /\ outcome' = [i \in DOMAIN call |-> Derive(call[i])]
    /\ pc' = "named"
    /\ UNCHANGED <<current_repo_path, files, call>>
    /\ StandaloneUnchanged

\* create_unique_branch_name called once more with the same arguments
DeriveAgain ==
    /\ pc = "named"
    /\ outcome' = [i \in DOMAIN call |->
                      [outcome[i] EXCEPT !.again =
                          create_unique_branch_name(
                              [ticket_number |-> outcome[i].ticket_number,
                               title |-> outcome[i].title], call[i])]]
    /\ pc' = "renamed"
    /\ UNCHANGED <<current_repo_path, files, call>>
    /\ StandaloneUnchanged

BranchSpec == BranchInit /\ [][DeriveBranchNames \/ DeriveAgain]_vars

\* ---------------------------------------- generate_code_changes on its own
\* an entry of the "changes" list: any of its three keys may be missing
ChangeEntries ==
    [file_path : {Missing, "a.py"}, new_content : {Missing, "c1"},
     change_description : {Missing, "d"}]
\* what the response text holds where JSON is looked for: valid: json.loads
\* accepts it; has_changes: the object has the key "changes"
Documents ==
    [valid : BOOLEAN, has_changes : BOOLEAN,
     changes : UNION {[1..n -> ChangeEntries] : n \in 0..MaxEntries}]
\* the model call of lines 883-887: it raises, or answers with a text that
\* is the document as it is ("bare") or the document inside a markdown
\* code fence ("fenced")
ModelAnswers ==
    [kind : {"RateLimitError", "APIError"}, form : {"bare"},
     body : {[valid |-> FALSE, has_changes |-> FALSE, changes |-> <<>>]}]
    \cup [kind : {"text"}, form : {"bare", "fenced"}, body : Documents]

Complete(entry) ==
    /\ entry.file_path # Missing
    /\ entry.new_content # Missing
    /\ entry.change_description # Missing
\* lines 926-940: the complete entries, in order
ChangesOf(entries) ==
    LET kept == SelectSeq(entries, Complete)
    IN  [i \in DOMAIN kept |->
            CodeChange(kept[i].file_path, <<kept[i].new_content>>, kept[i].change_description)]
\* lines 947-979
NotesChange ==
    CodeChange(NOTES_FILE, <<"# Implementation for: title">>, "Created implementation notes")
\* lines 946-981: if not changes: changes.append(notes); return changes
OrNotes(changes) == IF changes = <<>> THEN <<NotesChange>> ELSE changes

\* lines 878-982 for the answer of the model; the files of
\* analysis.files_to_modify do not exist
generate_code_changes(answer) ==
    IF answer.kind = "RateLimitError" THEN <<>>                  \* line 891
    ELSE IF answer.kind # "text" THEN OrNotes(<<>>)              \* lines 941-945
    ELSE IF answer.form = "bare" /\ ~answer.body.valid THEN <<>> \* line 916
    ELSE IF ~answer.body.valid THEN <<>>                         \* line 913
    ELSE IF ~answer.body.has_changes THEN <<>>                   \* line 920
    ELSE OrNotes(ChangesOf(answer.body.changes))

GenerateInit ==
    /\ pc = "generate"
    /\ current_repo_path = "/repo"
    /\ files = InitialFiles
    /\ call \in ModelAnswers
    /\ outcome = NoOutcome
    /\ Standalone

\* lines 802-982: one call of generate_code_changes
CallGenerateCodeChanges ==
    /\ pc = "generate"
    /\ outcome' = [changes |-> generate_code_changes(call)]
    /\ pc' = "generated"
    /\ UNCHANGED <<current_repo_path, files, call>>
    /\ StandaloneUnchanged

GenerateSpec == GenerateInit /\ [][CallGenerateCodeChanges]_vars

\* ----------------------------------------- create_pr_from_ticket on its own
\* a token: not given (None), empty, or a value
Tokens == {"<None>", "", "token"}
\* what can go wrong in __init__: nothing, Github(...) raises, or
\* anthropic.Anthropic(...) raises
InitFailures == {"none", "Github", "Anthropic"}
\* how generate_pr_from_ticket ends once the agent exists
Workflows == {"clone fails", "no changes", "apply fails", "pull request"}
PRResult(success, error_message) == [success |-> success, error_message |-> error_message]
Returned(value) == [kind |-> "returned", value |-> value]
\* an exception that leaves the function
Escaped(e) == [kind |-> "raised", value |-> PRResult(FALSE, e)]

\* lines 75-90: __init__; TRUE when the agent is constructed.  Github is
\* constructed only for a non-empty token; the except clause re-raises.
InitSucceeds(github_token, failure) ==
    /\ failure # "Anthropic"
    /\ ~(failure = "Github" /\ github_token \notin {"<None>", ""})

\* lines 1089-1130: generate_pr_from_ticket catches every exception
generate_pr_from_ticket(workflow) ==
    IF workflow = "clone fails" THEN PRResult(FALSE, "Workflow failed")
    ELSE IF workflow = "no changes" THEN PRResult(FALSE, "No code changes were generated")
    ELSE IF workflow = "apply fails" THEN PRResult(FALSE, "Failed to apply code changes")
    ELSE PRResult(TRUE, "")

\* os.getenv when the argument is not given or empty
OrEnv(token, env) == IF token \in {"<None>", ""} THEN env ELSE token

\* lines 1148-1176: create_pr_from_ticket
create_pr_from_ticket(args) ==
    LET github_token == OrEnv(args.github_token, args.env_github)
        anthropic_api_key == OrEnv(args.anthropic_api_key, args.env_anthropic)
    IN  IF github_token \in {"<None>", ""} \/ anthropic_api_key \in {"<None>", ""}
        THEN Returned(PRResult(FALSE, "GitHub token and Anthropic API key are required"))
        ELSE IF ~InitSucceeds(github_token, args.failure)
        THEN Escaped(args.failure)
        ELSE Returned(generate_pr_from_ticket(args.workflow))

CreateInit ==
    /\ pc = "create"
    /\ current_repo_path = ""
    /\ files = InitialFiles
    /\ call \in [github_token : Tokens, anthropic_api_key : Tokens,
                  env_github : {"<None>", "token"}, env_anthropic : {"<None>", "token"},
                  failure : InitFailures, workflow : Workflows]
    /\ outcome = NoOutcome
    /\ Standalone

\* lines 1148-1176: one call of create_pr_from_ticket
CallCreatePr ==
    /\ pc = "create"
    /\ outcome' = create_pr_from_ticket(call)
    /\ pc' = "created"
    /\ UNCHANGED <<current_repo_path, files, call>>
    /\ StandaloneUnchanged

CreateSpec == CreateInit /\ [][CallCreatePr]_vars

\* --------------------------------------------------- read_files on its own
\* line 329: "\n... (truncated)"
TRUNCATION_MARKER ==
    <<"\n", ".", ".", ".", " ", "(", "t", "r", "u", "n", "c", "a", "t", "e", "d", ")">>
\* a file of n characters
FileOfSize(n) == [i \in 1..n |-> "x"]

\* lines 320-343: the entry of one listed path
ReadEntry(file, truncate_bytes) ==
    IF ~file.exists THEN [error |-> "File not found", content |-> <<>>, truncated |-> FALSE]
    ELSE LET text == FileOfSize(file.size)
             head == Take(text, truncate_bytes)                       \* f.read(truncate_bytes)
             more == Len(text) > Len(head)                            \* f.read(1)
             content == IF more THEN head \o TRUNCATION_MARKER ELSE head
         IN  [error |-> "", content |-> content,
              truncated |-> Len(content) >= truncate_bytes]

\* lines 314-347: results, a dict keyed by the listed paths
read_files(tree, paths, truncate_bytes) ==
    [p \in {paths[i] : i \in DOMAIN paths} |-> ReadEntry(tree[p], truncate_bytes)]

BatchPaths == {"a.py", "b.py"}
ReadFilesInit ==
    /\ pc = "read"
    /\ current_repo_path = "/repo"
    /\ files = InitialFiles
    /\ call \in [files : UNION {[1..n -> BatchPaths] : n \in 0..MaxBatch},
                  truncate_bytes : 0..MaxBytes,
                  tree : [BatchPaths -> [exists : {TRUE}, size : 0..(MaxBytes + 1)]
                                        \cup {[exists |-> FALSE, size |-> 0]}]]
    /\ outcome = NoOutcome
    /\ Standalone

\* lines 314-347: one call of the read_files tool
CallReadFiles ==
    /\ pc = "read"
    /\ outcome' = read_files(call.tree, call.files, call.truncate_bytes)
    /\ pc' = "read done"
    /\ UNCHANGED <<current_repo_path, files, call>>
    /\ StandaloneUnchanged

ReadFilesSpec == ReadFilesInit /\ [][CallReadFiles]_vars

\* ---- two runs of analyze_ticket interleaved on one agent instance ----
\* current_repo_path is the attribute of the instance (line 502), files maps
\* each root to its tree, call holds the local variables of each run and
\* outcome what each run's executed requests touched
Runs == {1, 2}
RunRoot(r) == IF r = 1 THEN "/repo1" ELSE "/repo2"
RunRoots == {RunRoot(r) : r \in Runs}
RunRequests == {req \in Requests : req.name \in {"read_file", "write_file"} /\ req.content # "c2"}

TwoRunsInit ==
    /\ pc = "runs"
    /\ current_repo_path = ""
    /\ files = [root \in RunRoots |-> InitialFiles]
    /\ call = [r \in Runs |-> [at |-> "start", local_repo_path |-> RunRoot(r),
                                tool_calls_used |-> 0, reads_used |-> 0,
                                searches_used |-> 0, handled |-> 0]]
    /\ outcome = [r \in Runs |-> [roots |-> {}, requests |-> 0, reads |-> 0]]
    /\ Standalone

\* line 502: the run stores its root in the instance; lines 557-560: its
\* counters are local variables
StartRun(r) ==
    /\ pc = "runs"
    /\ call[r].at = "start"
    /\ current_repo_path' = call[r].local_repo_path
    /\ call' = [call EXCEPT ![r].at = "loop", ![r].tool_calls_used = 0,
                            ![r].reads_used = 0, ![r].searches_used = 0]
    /\ UNCHANGED <<pc, files, outcome>>
    /\ StandaloneUnchanged

\* lines 607-650 for one tool_use block of run r: the budget checks read the
\* run's local counters, _execute_tool reads the root from the instance
\* (lines 212-217)
HandleRequest(r) ==
    /\ pc = "runs"
    /\ call[r].at = "loop"
    /\ call[r].handled < MaxRequests
    /\ \E req \in RunRequests :
        LET own == call[r]
            read == IsReadTool(req.name)
            rejected == read /\ ReadBudgetExhausted(own.reads_used)
            reads == IF read /\ ~rejected THEN own.reads_used + 1 ELSE own.reads_used
            calls == IF rejected THEN own.tool_calls_used ELSE own.tool_calls_used + 1
            runs == ~rejected /\ ~ToolBudgetReached(calls)
            out == execute_tool(current_repo_path, files[current_repo_path],
                                req.name, req, TRUE)
        IN  /\ call' = [call EXCEPT ![r].handled = own.handled + 1,
                                    ![r].reads_used = reads,
                                    ![r].tool_calls_used = calls]
            /\ files' = IF runs THEN [files EXCEPT ![current_repo_path] = out.files]
                        ELSE files
            /\ outcome' = [outcome EXCEPT
                             ![r].roots = IF runs THEN @ \cup {current_repo_path} ELSE @,
                             ![r].requests = IF rejected THEN @ ELSE @ + 1,
                             ![r].reads = IF read /\ ~rejected THEN @ + 1 ELSE @]
    /\ UNCHANGED <<pc, current_repo_path>>
    /\ StandaloneUnchanged

\* lines 656-693: the run returns
FinishRun(r) ==
    /\ pc = "runs"
    /\ call[r].at = "loop"
    /\ call' = [call EXCEPT ![r].at = "done"]
    /\ UNCHANGED <<pc, current_repo_path, files, outcome>>
    /\ StandaloneUnchanged

TwoRunsSpec ==
    TwoRunsInit /\ [][\E r \in Runs : StartRun(r) \/ HandleRequest(r) \/ FinishRun(r)]_vars

\* the calls of _execute_tool on their own, and the runs of analyze_ticket
\* started without a repository path
NoRootSpec == (ToolInit \/ FairInit) /\ [][CallExecuteTool \/ Next]_vars

\* =============================================================== claims
Last(seq) == seq[Len(seq)]
\* the text holds the fragment s
Quotes(text, s) == \E i \in DOMAIN text : text[i] = s
\* the for-loop over the response's blocks is over (lines 607-654 are done)
BatchDone == pc = "loop" /\ response > 0
\* the number of results the batch holds for the block at position i
ResultsFor(i) ==
    Cardinality({j \in DOMAIN tool_results : tool_results[j].tool_use_id = <<iteration, i>>})
ErrorPath == pc = "done" /\ exception # NoException
RateLimitedIn(it) ==
    \E i \in DOMAIN messages : messages[i] = TextMessage("user", RATE_LIMIT_DIRECTIVE, it)
FirstResponseWithoutTools ==
    \E i \in DOMAIN messages : messages[i] = AssistantMessage(0, 1)

\* C1 (as claimed): tool_calls_used <= MAX_TOOL_CALLS at every point of a
\* run, also in the iterations after the one that reached the ceiling.
C1_ToolCallsWithinCeiling == tool_calls_used <= MAX_TOOL_CALLS

\* C2: reads_used and searches_used start at 0, never decrease and stay
\* within MAX_READS and MAX_SEARCHES, whatever the model requests.
C2_ReadAndSearchBudgets ==
    /\ [](/\ reads_used \in 0..MAX_READS
          /\ searches_used \in 0..MAX_SEARCHES
          /\ (iteration = 0 => reads_used = 0 /\ searches_used = 0))
    /\ [][reads_used' >= reads_used /\ searches_used' >= searches_used]_vars

\* both budgets are used up and a further read was requested
C2_Witness ==
    /\ BatchDone
    /\ reads_used = MAX_READS
    /\ searches_used = MAX_SEARCHES
    /\ tool_call \in ReadTools
    /\ Last(tool_results).content = "read budget exhausted"

\* C3: a read request made when reads_used = MAX_READS, or a search request
\* made when searches_used = MAX_SEARCHES, is not passed to _execute_tool
\* (no file changes) and gets a budget-exhausted error result; results stay
\* in the batch, and the batch is appended to the transcript.
C3_BudgetRejection ==
    /\ [][(/\ pc = "dispatch"
           /\ position' = position + 1
           /\ \/ tool_call' \in ReadTools /\ reads_used = MAX_READS
              \/ tool_call' = "search_files" /\ searches_used = MAX_SEARCHES)
          => /\ executed' = executed
             /\ dispatched' = dispatched
             /\ files' = files
             /\ files_modified' = files_modified
             /\ tool_results' =
                  Append(tool_results,
                         ToolResult(<<iteration, position'>>,
                                    IF tool_call' = "search_files"
                                    THEN "search budget exhausted"
                                    ELSE "read budget exhausted"))]_vars
    /\ [][pc = "dispatch" =>
            SubSeq(tool_results', 1, Len(tool_results)) = tool_results]_vars
    /\ [](BatchDone /\ tool_results # <<>> =>
            Last(messages) = ToolResultsMessage(tool_results, iteration))

\* a batch with a rejected read and a rejected search is in the transcript
C3_Witness ==
    /\ BatchDone
    /\ \E i \in DOMAIN tool_results : tool_results[i].content = "read budget exhausted"
    /\ \E i \in DOMAIN tool_results : tool_results[i].content = "search budget exhausted"
    /\ dispatched = <<>>
    /\ Last(messages) = ToolResultsMessage(tool_results, iteration)

\* C4 (as claimed): when the for-loop over a response is over, every
\* tool_use block of the response has exactly one result in the batch, and
\* the batch is in the transcript.
C4_EveryRequestAnswered ==
    BatchDone =>
        /\ \A i \in 1..response : ResultsFor(i) = 1
        /\ Last(messages) = ToolResultsMessage(tool_results, iteration)

\* C5 (as claimed): the tool-budget directive is appended at most once per run.
C5_DirectiveAtMostOnce == directives <= 1

\* C6: _execute_tool runs at most MAX_TOOL_CALLS times in a run; a request
\* is executed only if it leaves tool_calls_used below the ceiling; the
\* request that reaches the ceiling ends the for-loop without being executed.
C6_NoExecutionAtCeiling ==
    /\ [](executed <= MAX_TOOL_CALLS)
    /\ [][executed' # executed =>
            /\ pc = "dispatch"
            /\ dispatched' = Append(dispatched, position')
            /\ tool_calls_used' < MAX_TOOL_CALLS]_vars
    /\ [][tool_calls_used < MAX_TOOL_CALLS /\ tool_calls_used' >= MAX_TOOL_CALLS =>
            /\ pc' = "loop"
            /\ executed' = executed
            /\ dispatched' = dispatched
            /\ files' = files
            /\ files_modified' = files_modified]_vars

\* the first block of a response reached the ceiling; the second was left
C6_Witness ==
    /\ BatchDone
    /\ tool_calls_used = MAX_TOOL_CALLS
    /\ executed = MAX_TOOL_CALLS - 1
    /\ position < response
    /\ dispatched = <<>>

\* C7 (as claimed): a run that ends without an error and without a written
\* file returns exactly one CodeChange, for IMPLEMENTATION_NOTES.md.
C7_NotesWhenNothingWritten ==
    (pc = "done" /\ exception = NoException /\ files_modified = <<>>) =>
        /\ Len(result.code_changes) = 1
        /\ result.code_changes[1].file_path = NOTES_FILE

\* what C8 says of a run whose first response holds no tool_use block, but
\* for the number of model calls
C8_NothingElseHappened ==
    /\ iteration = 1
    /\ pc \in {"finish", "done"}
    /\ exception = NoException
    /\ executed = 0
    /\ tool_calls_used = 0
    /\ reads_used = 0
    /\ searches_used = 0
    /\ files = InitialFiles
    /\ files_modified = <<>>

\* C8 (as claimed): such a run ends in its first iteration after one model
\* call, with no tool dispatched, no counter changed and no file written.
C8_OneModelCall ==
    FirstResponseWithoutTools => C8_NothingElseHappened /\ model_calls = 1

\* C8 (amended): the same, with one model call, or two when the first call
\* was answered with a rate-limit signal and retried.
C8_OneIteration ==
    FirstResponseWithoutTools =>
        /\ C8_NothingElseHappened
        /\ model_calls = IF RateLimitedIn(1) THEN 2 ELSE 1

\* the first call was rate-limited, the retry answered without tool_use
C8_Witness ==
    /\ FirstResponseWithoutTools
    /\ pc = "done"
    /\ model_calls = 2
    /\ result.code_changes = <<>>

\* C9: an exception raised inside the loop is not propagated: the run
\* returns one CodeChange for IMPLEMENTATION_NOTES.md whose content holds the
\* error message, and an analysis with an empty files_to_modify.
C9_ExceptionBecomesFallback ==
    /\ result.kind # "raised"
    /\ (exception # NoException) = ErrorPath
    /\ ErrorPath =>
        /\ result.kind = "returned"
        /\ Len(result.code_changes) = 1
        /\ result.code_changes[1].file_path = NOTES_FILE
        /\ Quotes(result.code_changes[1].new_content, exception)
        /\ result.analysis.files_to_modify = <<>>

\* a model call failed after a file had been written
C9_Witness ==
    /\ ErrorPath
    /\ exception = "APIError"
    /\ files_modified # <<>>
    /\ result.kind = "returned"

\* C10 (as claimed): on the error path the analysis' description quotes the
\* error message.
C10_DescriptionQuotesError ==
    ErrorPath => Quotes(result.analysis.description, exception)

\* C10 (amended): on the error path the description is the ticket text,
\* unchanged; the error message is quoted in the notes file's content.
C10_DescriptionIsTicketText ==
    ErrorPath =>
        /\ result.analysis.description = ticket_description
        /\ Quotes(result.code_changes[1].new_content, exception)

\* the retry after a rate-limit signal was rate-limited too
C10_Witness ==
    /\ ErrorPath
    /\ exception = "RateLimitError"
    /\ result.analysis.description = ticket_description

\* C11: every run terminates: the loop makes at most MAX_ITERATIONS
\* iterations and then analyze_ticket returns a result, even if every
\* response requests tools (every model call and tool dispatch returning).
C11_RunTerminates ==
    /\ [](iteration <= MAX_ITERATIONS)
    /\ [](pc = "finish" /\ response > 0 => iteration = MAX_ITERATIONS)
    /\ <>[](pc = "done" /\ result.kind = "returned")

\* the run ended at the iteration cap, the last response still requesting tools
C11_Witness ==
    /\ pc = "done"
    /\ exception = NoException
    /\ iteration = MAX_ITERATIONS
    /\ response > 0
    /\ result.kind = "returned"

BudgetCounters == <<tool_calls_used, reads_used, searches_used>>
RateLimitDirective == TextMessage("user", RATE_LIMIT_DIRECTIVE, iteration)

\* C12: a rate-limit signal on a model call appends exactly one directive
\* message and is followed by exactly one retry, with max_tokens at 60% of
\* RESPONSE_MAX_TOKENS; no iteration makes more than two model calls (so a
\* run of at most MAX_ITERATIONS iterations makes at most 2 * MAX_ITERATIONS),
\* and the retry changes none of the three budget counters.
C12_RateLimitRetry ==
    /\ [](model_calls <= 2 /\ iteration <= MAX_ITERATIONS)
    /\ [](pc = "retry" => /\ model_calls = 1
                          /\ max_tokens = RESPONSE_MAX_TOKENS
                          /\ Last(messages) = RateLimitDirective)
    /\ [][model_calls' # model_calls =>
            \/ model_calls' = model_calls + 1 /\ iteration' = iteration
            \/ model_calls' = 0 /\ iteration' = iteration + 1]_vars
    /\ [][pc = "call" /\ pc' = "retry" =>
            /\ messages' = Append(messages, RateLimitDirective)
            /\ BudgetCounters' = BudgetCounters]_vars
    /\ [][pc = "retry" =>
            /\ pc' \notin {"retry", "call"}
            /\ model_calls' = 2
            /\ max_tokens' * 10 = RESPONSE_MAX_TOKENS * 6
            /\ BudgetCounters' = BudgetCounters
            /\ \/ messages' = messages
               \/ \E n \in 0..response' :
                    messages' = Append(messages, AssistantMessage(n, iteration))]_vars

\* the retry of a late iteration answered with tool requests
C12_Witness ==
    /\ pc = "dispatch"
    /\ iteration = 7
    /\ model_calls = 2
    /\ max_tokens * 10 = RESPONSE_MAX_TOKENS * 6
    /\ tool_calls_used > 0
    /\ \E i \in DOMAIN messages : messages[i] = RateLimitDirective

\* C13: a rate-limit signal on the retry is not retried again: it ends the
\* loop, and the run returns the fallback result (exactly one CodeChange,
\* for IMPLEMENTATION_NOTES.md) instead of raising.
C13_SecondRateLimitEndsRun ==
    exception = "RateLimitError" =>
        /\ pc = "done"
        /\ model_calls = 2
        /\ Last(messages) = RateLimitDirective
        /\ result.kind = "returned"
        /\ Len(result.code_changes) = 1
        /\ result.code_changes[1].file_path = NOTES_FILE

\* the retry of iteration 7 was rate-limited after a file had been written
C13_Witness ==
    /\ exception = "RateLimitError"
    /\ pc = "done"
    /\ iteration = 7
    /\ files_modified # <<>>
    /\ Len(result.code_changes) = 1

RECURSIVE IsSubsequence(_, _)
\* a is b with some elements left out, the others in their order
IsSubsequence(a, b) ==
    IF a = <<>> THEN TRUE
    ELSE IF b = <<>> THEN FALSE
    ELSE IF Head(a) = Head(b) THEN IsSubsequence(Tail(a), Tail(b))
    ELSE IsSubsequence(a, Tail(b))

CountRole(msgs, role) == Cardinality({i \in DOMAIN msgs : msgs[i].role = role})

\* C14: for every transcript and every pair of caps, what _prune_messages
\* returns holds at most max_user_msgs user messages and at most
\* max_assistant_msgs assistant messages, and is a subsequence of the input.
C14_PruneCapsAndOrder ==
    pc = "pruned" =>
        /\ CountRole(pruned, "user") <= caps[1]
        /\ CountRole(pruned, "assistant") <= caps[2]
        /\ IsSubsequence(pruned, messages)

\* a call that dropped a message of each capped role and kept others
C14_Witness ==
    /\ pc = "pruned"
    /\ caps = <<1, 1>>
    /\ Len(messages) = 4
    /\ Len(pruned) = 2
    /\ pruned[1].iter = 3
    /\ pruned[2].iter = 4

\* the transcript in messages is the argument of a model call about to be made
OutboundCall == pc \in {"call", "retry"}
SeedMessage == TextMessage("user", "initial_prompt", 0)

\* C15 (as claimed): the transcript of every model call, the retry after a
\* rate-limit signal included, holds at most 6 user and at most 6 assistant
\* messages.
C15_SentTranscriptWithinCaps ==
    OutboundCall =>
        /\ CountRole(messages, "user") <= max_user_msgs
        /\ CountRole(messages, "assistant") <= max_assistant_msgs

\* C16: in every transcript of the loop, a message that carries tool results
\* has the assistant message with its tool_use requests before it, also
\* after pruning.
C16_ToolResultsKeepTheirCall ==
    \A i \in DOMAIN messages :
        messages[i].kind = "tool_result" =>
            \E j \in 1..(i - 1) : messages[j] = AssistantMessage(1, messages[i].iter)

\* pruning dropped the first two iterations; the third is kept as a pair
C16_Witness ==
    /\ pc = "call"
    /\ Len(messages) = max_user_msgs + max_assistant_msgs
    /\ messages[1] = AssistantMessage(1, 3)
    /\ messages[2] = ToolResultsMessage(<<>>, 3)
    /\ messages = pruned

\* C17 (as claimed): the seed user message is the first message of the
\* transcript of every model call of the run.
C17_SeedMessageKept ==
    OutboundCall => Len(messages) > 0 /\ messages[1] = SeedMessage

\* C18 (as claimed): no two CodeChange entries of the returned list have the
\* same file_path, even when a path was written several times.
C18_OneChangePerFile ==
    pc = "done" =>
        \A i, j \in DOMAIN result.code_changes :
            i # j => result.code_changes[i].file_path # result.code_changes[j].file_path

\* the paths written during the run (no file of the tree exists at its start)
WrittenPaths == {p \in Paths : files[p] # InitialFiles[p]}
ReturnedPaths == {result.code_changes[j].file_path : j \in DOMAIN result.code_changes}

Exists(path) == path \in DOMAIN files /\ files[path] # Absent

C21_OnlyDispatchedWritesChangeFiles ==
    /\ [][files' # files =>
            /\ pc = "dispatch"
            /\ tool_call' = "write_file"
            /\ executed' = executed + 1
            /\ dispatched' = Append(dispatched, position')
            /\ Last(tool_results').content = "ok"
            /\ \E p \in Paths, c \in Contents : files' = [files EXCEPT ![p] = c]]_vars
    /\ [][(\/ tool_call' \in ToolNames \ {"write_file"}
           \/ directives' # directives
           \/ executed' = executed) => files' = files]_vars

\* a file written earlier in the run was read by a later request
C21_Witness ==
    /\ pc = "loop"
    /\ files # InitialFiles
    /\ tool_call = "read_file"
    /\ Len(tool_results) = 2
    /\ tool_results[1].content = "search budget exhausted"
    /\ tool_results[2].content = "ok"

\* the texts of the errors _execute_tool returns
ExecutionErrors ==
    {"No repository path set", "File not found", "Directory not found",
     "Tool execution failed", "Could not read file", "Unknown tool"}

\* C22: an error of a tool execution does not abort the run: it becomes the
\* request's tool result, the for-loop goes on with the remaining requests of
\* the response, the batch is appended, and the loop makes its next model call.
C22_ToolErrorsDoNotAbort ==
    /\ [][(/\ pc = "dispatch"
           /\ executed' = executed + 1
           /\ Last(tool_results').content \in ExecutionErrors)
          => /\ exception' = NoException
             /\ result' = result
             /\ tool_results' = Append(tool_results,
                                       ToolResult(<<iteration, position'>>,
                                                  Last(tool_results').content))
             /\ pc' = IF position' < response THEN "dispatch" ELSE "loop"
             /\ pc' = "loop" =>
                  Last(messages') = ToolResultsMessage(tool_results', iteration)]_vars
    /\ [][pc = "loop" /\ iteration < MAX_ITERATIONS =>
            pc' = "call" /\ iteration' = iteration + 1]_vars

\* the first request of a response failed, the second was executed
C22_Witness ==
    /\ pc = "loop"
    /\ exception = NoException
    /\ Len(tool_results) = 2
    /\ tool_results[1].content = "Unknown tool"
    /\ tool_results[2].content = "ok"
    /\ dispatched = <<1, 2>>

\* C23: when no root directory is configured, _execute_tool returns the
\* explicit error "No repository path set" for every tool name and every
\* input, performs no filesystem operation and leaves the tree as it was;
\* consequently a run started without a root never gets a successful tool
\* result, never records a written file and never changes the tree.
C23_NoRootNoExecution ==
    /\ [][pc = "execute" /\ current_repo_path = "" =>
            /\ outcome'.result = Error("No repository path set")
            /\ outcome'.accessed = <<>>
            /\ files' = files]_vars
    /\ [](current_repo_path = "" /\ pc \notin {"execute", "executed"} =>
            /\ files = InitialFiles
            /\ files_modified = <<>>
            /\ \A i \in DOMAIN tool_results : tool_results[i].content # "ok")
    /\ [][current_repo_path = "" /\ executed' = executed + 1 =>
            Last(tool_results').content = "No repository path set"]_vars
C23_Witness ==
    /\ current_repo_path = ""
    /\ pc = "loop"
    /\ tool_call = "write_file"
    /\ executed > 0
    /\ Last(tool_results).content = "No repository path set"
    /\ files_modified = <<>>

SixTools ==
    {"read_file", "write_file", "list_directory", "search_files", "peek_file", "read_files"}
SuccessKeys == {"content", "success", "items", "matches", "head", "files"}

\* C24: _execute_tool never raises: for every tool name, the names outside
\* the six tools included, and every input map, those with missing keys
\* included, the call returns a success payload or a structured error value,
\* never an exception; a tool name outside the six yields an error, makes no
\* filesystem access and leaves the tree as it was.
C24_ExecuteToolNeverRaises ==
    /\ [](pc = "executed" =>
            /\ outcome.result.key \in SuccessKeys \cup {"error"}
            /\ outcome.result.key = "error" => outcome.result.text \in ExecutionErrors)
    /\ [][pc = "execute" /\ call.name \notin SixTools =>
            /\ outcome'.result.key = "error"
            /\ outcome'.accessed = <<>>
            /\ files' = files]_vars
    /\ [][pc = "execute" /\ call.name \notin SixTools /\ current_repo_path # "" =>
            outcome'.result = Error("Unknown tool")]_vars
C24_Witness ==
    /\ pc = "executed"
    /\ current_repo_path # ""
    /\ call.name = "write_file"
    /\ call.input.file_path = "a.py"
    /\ call.input.content = Missing
    /\ outcome.result = Error("Tool execution failed")
    /\ files["a.py"] = EmptyContent

\* the operations of one kind among the filesystem operations of a call
OpsOfKind(accessed, kind) == {i \in DOMAIN accessed : accessed[i].op = kind}

\* C26 (as claimed): one read_files call reads at most 5 files, even when
\* the request lists more than 5 paths.
C26_ReadFilesReadsAtMostFive ==
    pc = "executed" /\ call.name = "read_files" /\ call.input.files # MissingList =>
        Cardinality(OpsOfKind(outcome.accessed, "read")) <= maxItems

\* the name of a directory starts with a dot or is one of the five left out
HiddenOrExcluded(d) ==
    \/ d[1] = "."
    \/ d = <<"node_modules">> \/ d = <<"__pycache__">> \/ d = <<"venv">>
    \/ d = <<"dist">> \/ d = <<"build">>

\* C25: for every tree and pattern search_files returns at most 20 file
\* entries, each with at most 5 line numbers, and no returned file lies under
\* a directory whose name starts with "." or is node_modules, __pycache__,
\* venv, dist or build, even when the file contains the pattern.
C25_SearchCapsAndExclusions ==
    pc = "searched" =>
        /\ Len(outcome.matches) <= 20
        /\ \A i \in DOMAIN outcome.matches :
            /\ Len(outcome.matches[i].line_numbers) <= 5
            /\ \A j \in DOMAIN outcome.matches[i].file.dirs :
                  ~HiddenOrExcluded(outcome.matches[i].file.dirs[j])
C25_Witness ==
    /\ pc = "searched"
    /\ Len(call.tree) = 22
    /\ \A i \in 1..21 : call.tree[i].dirs = <<>> /\ Len(LineNumbers(call.tree[i].lines)) = 7
    /\ call.tree[22].dirs = <<<<"src">>, <<"__pycache__">>>>
    /\ call.tree[22].name = <<"a", ".", "py">>
    /\ call.tree[22].read = "ok"
    /\ LineNumbers(call.tree[22].lines) # <<>>
    /\ outcome.result.key = "matches"
    /\ Len(outcome.matches) = 20
    /\ Len(outcome.matches[1].line_numbers) = 5

\* the branch names have been derived
Named == pc \in {"named", "renamed"}
\* the prefix the branch name of ticket i of the batch is to carry
PrefixOf(i) ==
    IF outcome[i].ticket_number # None
    THEN [k \in DOMAIN outcome[i].ticket_number |-> Lower(outcome[i].ticket_number[k])]
    ELSE <<"ticket-", "md5(">> \o call[i] \o <<")">>

C28_DistinctTextsDistinctNames ==
    Named /\ call[1] # call[2] => outcome[1].branch_name # outcome[2].branch_name

\* the characters of a slug
SlugChars == Lowers \cup Digits \cup {"-"}
WellFormedSlug(slug) ==
    /\ Len(slug) <= 50
    /\ \A k \in DOMAIN slug : slug[k] \in SlugChars
    /\ \A k \in 1..(Len(slug) - 1) : ~(slug[k] = "-" /\ slug[k + 1] = "-")
    /\ slug # <<>> => slug[1] # "-" /\ slug[Len(slug)] # "-"

\* C29: for every title, the derived ones and any other text used as a
\* title, the slug is at most 50 characters long, holds only lower-case
\* letters, digits and hyphens, has no two hyphens in a row and neither
\* begins nor ends with a hyphen, also when it was cut to 50 characters.
C29_SlugWellFormed ==
    Named => \A i \in DOMAIN outcome :
                WellFormedSlug(outcome[i].slug) /\ WellFormedSlug(outcome[i].free_slug)
C29_Witness ==
    /\ pc = "named"
    /\ Len(SlugBeforeCut(outcome[1].title)) > 50
    /\ SlugBeforeCut(outcome[1].title)[50] = "-"
    /\ Len(outcome[1].slug) = 49
    /\ Len(SlugBeforeCut(call[1])) > 50
    /\ Len(outcome[1].free_slug) = 49

\* what remains of a description after trimming it and removing a leading
\* ticket number
Remainder(description) == Strip(RemoveTicketPrefix(Strip(description, Whitespace)), Whitespace)

\* C30 (as claimed): the title is a non-empty string of at most 80
\* characters, and it is the fixed title exactly when nothing remains of the
\* description after removing a leading ticket number and trimming.
C30_FixedTitleIffNothingRemains ==
    Named => \A i \in DOMAIN outcome :
        /\ outcome[i].title # <<>>
        /\ Len(outcome[i].title) <= 80
        /\ outcome[i].title = FIXED_TITLE <=> Remainder(call[i]) = <<>>

\* C30 (amended): the title is a non-empty string of at most 80 characters;
\* it is the fixed title when nothing remains of the description after
\* removing a leading ticket number and trimming, and otherwise it is the
\* first line of what remains, cut to 80 characters and trimmed, so it is the
\* fixed title only when that line spells the fixed title itself.
C30_TitleFromRemainder ==
    Named => \A i \in DOMAIN outcome :
        /\ outcome[i].title # <<>>
        /\ Len(outcome[i].title) <= 80
        /\ Remainder(call[i]) = <<>> => outcome[i].title = FIXED_TITLE
        /\ Remainder(call[i]) # <<>> =>
              /\ outcome[i].title =
                    Strip(Take(Strip(FirstLine(Remainder(call[i])), Whitespace), 80), Whitespace)
              /\ outcome[i].title = FIXED_TITLE =>
                    Strip(FirstLine(Remainder(call[i])), Whitespace) = FIXED_TITLE
C30_Witness ==
    /\ pc = "named"
    /\ call[1] = <<>>
    /\ outcome[1].title = FIXED_TITLE
    /\ call[2] = <<"\n", "C", "D", "-", "2">>
    /\ outcome[2].title = FIXED_TITLE

\* C31 (as claimed): generate_code_changes returns a non-empty list: exactly
\* the notes CodeChange when the model call was rate-limited, the answer is
\* not valid JSON even inside a code fence, has no "changes" key or holds
\* only incomplete entries; incomplete entries are never returned.
C31_NotesWhenNothingGenerated ==
    pc = "generated" =>
        /\ outcome.changes # <<>>
        /\ (\/ call.kind = "RateLimitError"
            \/ ~call.body.valid
            \/ ~call.body.has_changes
            \/ \A i \in DOMAIN call.body.changes : ~Complete(call.body.changes[i]))
           => outcome.changes = <<NotesChange>>
        /\ Len(outcome.changes) <= Max(1, Len(SelectSeq(call.body.changes, Complete)))

\* C32 (as claimed): when the construction of the model-service client
\* fails, no exception leaves the agent: the caller obtains a result.
C32_InitFailureReturnsResult ==
    pc = "created" /\ call.failure = "Anthropic" => outcome.kind = "returned"

\* the messages of the transcript that carry tool results of iteration it
ResultMessages(msgs, it) ==
    {i \in DOMAIN msgs : msgs[i] = ToolResultsMessage(<<>>, it)}

\* C33: the tool_use blocks of a response are handled one at a time in the
\* order of the response; the results of the iteration are in that order in
\* the batch; when the for-loop is over a non-empty batch is appended to the
\* transcript as one user message, the last one; and a model call is made
\* only after that, from the head of the loop.
C33_RequestsInOrderOneBatch ==
    /\ [][position' # position /\ pc = "dispatch" =>
            /\ position' = position + 1
            /\ position' <= response
            /\ \/ tool_results' = tool_results
               \/ /\ Len(tool_results') = Len(tool_results) + 1
                  /\ SubSeq(tool_results', 1, Len(tool_results)) = tool_results
                  /\ Last(tool_results').tool_use_id = <<iteration, position'>>]_vars
    /\ [](\A i, j \in DOMAIN tool_results :
            /\ tool_results[i].tool_use_id[1] = iteration
            /\ i < j => tool_results[i].tool_use_id[2] < tool_results[j].tool_use_id[2])
    /\ [][pc = "dispatch" /\ pc' = "loop" =>
            IF tool_results' # <<>>
            THEN /\ Last(messages') = ToolResultsMessage(tool_results', iteration)
                 /\ Cardinality(ResultMessages(messages', iteration)) = 1
                 /\ ResultMessages(messages, iteration) = {}
            ELSE ResultMessages(messages', iteration) = {}]_vars
    /\ [][pc = "dispatch" => model_calls' = model_calls /\ pc' \in {"dispatch", "loop"}]_vars
    /\ [][model_calls' > model_calls =>
            /\ pc \in {"call", "retry"}
            /\ tool_results = <<>>
            /\ \A it \in 1..(iteration - 1) :
                  \A i \in ResultMessages(messages, it) :
                     \E j \in 1..(i - 1) : messages[j] = AssistantMessage(1, it)]_vars
C33_Witness ==
    /\ BatchDone
    /\ iteration = 2
    /\ response = 2
    /\ Len(tool_results) = 2
    /\ tool_results[1].tool_use_id = <<2, 1>>
    /\ tool_results[2].tool_use_id = <<2, 2>>
    /\ tool_results[1].content = "File not found"
    /\ Last(messages) = ToolResultsMessage(tool_results, 2)
    /\ Cardinality(ResultMessages(messages, 1)) = 1

\* the messages of role `role` that come after position i
LaterOfRole(msgs, i, role) == {j \in DOMAIN msgs : j > i /\ msgs[j].role = role}
\* the positions of the cap most recent messages of role `role`
MostRecent(msgs, role, cap) ==
    {i \in DOMAIN msgs : msgs[i].role = role /\ Cardinality(LaterOfRole(msgs, i, role)) < cap}
\* the messages at the positions of the set, in their order
MessagesAt(msgs, positions) ==
    LET at == SelectSeq([i \in 1..Len(msgs) |-> i], LAMBDA i : i \in positions)
    IN  [k \in DOMAIN at |-> msgs[at[k]]]

HandlesBlock == pc = "dispatch" /\ position' = position + 1
\* ... and does not answer it with a budget error
Processed == HandlesBlock /\ tool_calls_used' = tool_calls_used + 1

\* C35: read_file, peek_file and read_files draw on the one reads counter,
\* and a call that is not rejected adds exactly one to it, whatever the
\* number of files a read_files call lists; write_file, list_directory and
\* unknown tools change neither the reads nor the searches counter;
\* search_files changes only the searches counter, by one; every call that
\* is not rejected adds one to tool_calls_used; no other step changes a
\* counter.
C35_CountersPerCategory ==
    /\ [][HandlesBlock /\ tool_call' \in {"read_file", "peek_file", "read_files"} =>
            /\ searches_used' = searches_used
            /\ IF reads_used < MAX_READS
               THEN reads_used' = reads_used + 1 /\ Processed
               ELSE reads_used' = reads_used /\ tool_calls_used' = tool_calls_used]_vars
    /\ [][HandlesBlock /\ tool_call' = "search_files" =>
            /\ reads_used' = reads_used
            /\ IF searches_used < MAX_SEARCHES
               THEN searches_used' = searches_used + 1 /\ Processed
               ELSE searches_used' = searches_used /\ tool_calls_used' = tool_calls_used]_vars
    /\ [][HandlesBlock /\ tool_call' \in {"write_file", "list_directory", "delete_file"} =>
            /\ reads_used' = reads_used
            /\ searches_used' = searches_used
            /\ Processed]_vars
    /\ [][~HandlesBlock => BudgetCounters' = BudgetCounters]_vars
C35_Witness ==
    /\ BatchDone
    /\ iteration = 2
    /\ tool_call = "read_files"
    /\ reads_used = MAX_READS
    /\ searches_used = 1
    /\ tool_calls_used = MAX_READS + 1
    /\ executed = tool_calls_used
    /\ Len(tool_results) = 2

\* C36 (as claimed): in every entry of a read_files result the truncated
\* flag is true exactly when the file is longer than truncate_bytes; a file
\* of at most truncate_bytes characters is reported with truncated = false;
\* a missing path gets an error entry and the other paths their content.
C36_TruncatedIffCut ==
    pc = "read done" =>
        /\ DOMAIN outcome = {call.files[i] : i \in DOMAIN call.files}
        /\ \A p \in DOMAIN outcome :
            IF call.tree[p].exists
            THEN /\ outcome[p].error = ""
                 /\ outcome[p].truncated <=> call.tree[p].size > call.truncate_bytes
            ELSE outcome[p].error = "File not found"

\* C37 (as claimed): in every state of a run tool_calls_used is the number
\* of requests passed to _execute_tool so far: a request that is rejected or
\* skipped consumes nothing.
C37_CountersEqualExecuted == tool_calls_used = executed

\* C38 (as claimed): in the transcript _prune_messages hands to a model
\* call, every assistant message with tool_use requests is followed by the
\* user message that carries the results of its requests.
C38_ToolUseKeepsItsResults ==
    pc = "call" =>
        \A i \in DOMAIN messages :
            messages[i].role = "assistant" /\ messages[i].kind = "tool_use" =>
                \E j \in (i + 1)..Len(messages) :
                    messages[j] = ToolResultsMessage(<<>>, messages[i].iter)

\* C39: once tool_calls_used has reached MAX_TOOL_CALLS no request is passed
\* to _execute_tool for the rest of the run, a write_file requested after
\* the tool-budget directive included: the tree and the list of written
\* files stay as they are, and the counter never falls below the ceiling
\* again.
C39_NothingExecutedAfterCeiling ==
    [][tool_calls_used >= MAX_TOOL_CALLS =>
        /\ executed' = executed
        /\ dispatched' = dispatched \/ dispatched' = <<>>
        /\ files' = files
        /\ files_modified' = files_modified
        /\ tool_calls_used' >= MAX_TOOL_CALLS]_vars
C39_Witness ==
    /\ pc = "loop"
    /\ tool_calls_used = MAX_TOOL_CALLS + 1
    /\ directives = 2
    /\ tool_call = "write_file"
    /\ position = 1
    /\ response = 2
    /\ executed = MAX_TOOL_CALLS - 1
    /\ tool_results = <<>>


\* C40: when two runs of analyze_ticket are interleaved on one agent instance
\* with different roots, every request a run executes is executed against
\* that run's own root, and each run's counters count its own requests only.
C40_RunsIsolated ==
    \A r \in Runs :
        /\ outcome[r].roots \subseteq {call[r].local_repo_path}
        /\ call[r].tool_calls_used = outcome[r].requests
        /\ call[r].reads_used = outcome[r].reads

====
